---- MODULE Spec2Model ----
(***************************************************************************)
(* Model of src/mobius_strip.py: the MobiusStrip class, its constructor,   *)
(* mesh generation, the two numerical reductions and plot().               *)
(*                                                                         *)
(* Floating-point numbers are modelled as fixed-point integers: the        *)
(* integer k stands for the real number k / Scale.  Every multiplication,  *)
(* division and square root rounds, as the float operations of the source  *)
(* do, so equalities between computed reals are stated up to Tol units.    *)
(* Arrays are sequences indexed from 1 (the source indexes from 0); a 2-D  *)
(* array is a sequence of rows.                                            *)
(***************************************************************************)
EXTENDS Integers, Sequences, FiniteSets, TLC

\* ------------------------------------------------------------------ bounds
\* Resolution of the fixed-point numbers: 1 is represented by Scale.
Scale == 1000
\* Rounding tolerance, in units of 1/Scale, for comparing computed reals.
Tol == 5
\* R ranges over the whole numbers 0 .. MaxR.
MaxR == 2
\* w ranges over the half-integers -WLow/2 .. MaxW/2.
WLow == 1
MaxW == 2
\* n ranges over 0 .. MaxN.
MaxN == 4
\* At most MaxCalls method calls are made on the constructed object.
MaxCalls == 3

\* ------------------------------------------------------- float arithmetic
Abs(a) == IF a < 0 THEN -a ELSE a

Sign(a) == IF a < 0 THEN -1 ELSE 1

\* a / b for b > 0 an integer count, rounded to nearest (ties away from 0).
RoundDiv(a, b) == Sign(a) * ((2 * Abs(a) + b) \div (2 * b))

\* float * float
Mul(a, b) == RoundDiv(a * b, Scale)

\* x ** 2
Sq(a) == Mul(a, a)

RECURSIVE SqrtSearch(_, _, _)
SqrtSearch(x, lo, hi) ==
    IF lo >= hi THEN lo
    ELSE LET mid == (lo + hi + 1) \div 2
         IN  IF mid * mid <= x THEN SqrtSearch(x, mid, hi)
                               ELSE SqrtSearch(x, lo, mid - 1)

\* np.sqrt of a non-negative float: the largest r with r*r <= a*Scale.
Sqrt(a) == SqrtSearch(a * Scale, 0, a + Scale)

\* np.pi
Pi == (31416 * Scale + 5000) \div 10000

TwoPi == 2 * Pi

HalfPi == RoundDiv(Pi, 2)

\* sin on [0, pi/2]: the Taylor polynomial up to x^9, in Horner form.
SinKernel(x) ==
    LET x2 == Sq(x)
        t4 == Scale - RoundDiv(x2, 72)
        t3 == Scale - RoundDiv(Mul(x2, t4), 42)
        t2 == Scale - RoundDiv(Mul(x2, t3), 20)
        t1 == Scale - RoundDiv(Mul(x2, t2), 6)
    IN  Mul(x, t1)

\* cos on [0, pi/2]: the Taylor polynomial up to x^8, in Horner form.
CosKernel(x) ==
    LET x2 == Sq(x)
        t4 == Scale - RoundDiv(x2, 56)
        t3 == Scale - RoundDiv(Mul(x2, t4), 30)
        t2 == Scale - RoundDiv(Mul(x2, t3), 12)
    IN  Scale - RoundDiv(Mul(x2, t2), 2)

\* np.sin: reduce modulo 2*pi, then by quadrant.
Sin(x) ==
    LET r == Abs(x) % TwoPi
        s == IF r <= HalfPi THEN SinKernel(r)
             ELSE IF r <= Pi THEN SinKernel(Pi - r)
             ELSE IF r <= Pi + HalfPi THEN -SinKernel(r - Pi)
             ELSE -SinKernel(TwoPi - r)
    IN  Sign(x) * s

\* np.cos: reduce modulo 2*pi, then by quadrant.
Cos(x) ==
    LET r == Abs(x) % TwoPi
    IN  IF r <= HalfPi THEN CosKernel(r)
        ELSE IF r <= Pi THEN -CosKernel(Pi - r)
        ELSE IF r <= Pi + HalfPi THEN -CosKernel(r - Pi)
        ELSE CosKernel(TwoPi - r)

\* ------------------------------------------------------------ numpy arrays
\* np.linspace(start, stop, num), endpoint=True: num samples, the last one
\* set to stop itself; a single sample is start; none for num = 0.
linspace(start, stop, num) ==
    LET step == IF num > 1 THEN RoundDiv(stop - start, num - 1) ELSE 0
    IN  [i \in 1..num |->
            IF num > 1 /\ i = num THEN stop ELSE start + (i - 1) * step]

\* meshgridU with matrix indexing (indexing='ij'): row r is constantly a[r].
meshgridU_ij(a, b) == [r \in 1..Len(a) |-> [c \in 1..Len(b) |-> a[r]]]

\* First output of np.meshgrid(a, b), indexing='xy': Len(b) rows, each a.
meshgridU(a, b) == [r \in 1..Len(b) |-> [c \in 1..Len(a) |-> a[c]]]

\* Second output of np.meshgrid(a, b): row r is constantly b[r].
meshgridV(a, b) == [r \in 1..Len(b) |-> [c \in 1..Len(a) |-> b[r]]]

\* np.sum over a 1-D array.
RECURSIVE Sum1(_)
Sum1(s) == IF Len(s) = 0 THEN 0 ELSE Head(s) + Sum1(Tail(s))

\* np.sum over a 2-D array.
RECURSIVE Sum2(_)
Sum2(g) == IF Len(g) = 0 THEN 0 ELSE Sum1(Head(g)) + Sum2(Tail(g))

\* The value of an attribute that holds Python's None.
None == <<>>

\* ------------------------------------------------------------------ state
VARIABLES
    pc,        \* "new" before MobiusStrip(...) has returned, "ready" after
    self,      \* the attributes of the MobiusStrip object
    made,      \* the attributes as they were when the constructor returned
    genCount,  \* how many times _generate_mesh has run on the object
    trace,     \* the calls made on the object, each with what it returned
    file       \* whether mobius_strip.png has been written

vars == <<pc, self, made, genCount, trace, file>>

\* The constructor's arguments.
RValues == {r * Scale : r \in 0..MaxR}

WValues == {RoundDiv(k * Scale, 2) : k \in -WLow..MaxW}

NValues == 0..MaxN

\* An object no constructor has run on.
Blank ==
    [R |-> 0, w |-> 0, n |-> 0, u |-> <<>>, v |-> <<>>,
     U |-> <<>>, V |-> <<>>, mesh |-> None]

\* What a call returned: a float, or the exception it raised.
Returned(op, val) == [op |-> op, err |-> "", val |-> val]

Raised(op, err) == [op |-> op, err |-> err, val |-> 0]

\* ----------------------------------------------------------- MobiusStrip
\* PositionX with a full twist: cos(u) where the source has cos(u / 2).
PositionX_fulltwist(R, u, v) == Mul(R + Mul(v, Cos(u)), Cos(u))

\* x, y, z of the parametric surface at one (u, v).
PositionX(R, u, v) == Mul(R + Mul(v, Cos(RoundDiv(u, 2))), Cos(u))

PositionY(R, u, v) == Mul(R + Mul(v, Cos(RoundDiv(u, 2))), Sin(u))

PositionZ(R, u, v) == Mul(v, Sin(RoundDiv(u, 2)))

\* A 2-D array is evaluated elementwise over the cells of the grid U.
Cells(U) == {<<r, c>> : r \in 1..Len(U), c \in 1..(IF Len(U) = 0 THEN 0 ELSE Len(U[1]))}

\* The 2-D array of the shape of U whose cell <<r, c>> holds f[<<r, c>>].
Array(U, f) == [r \in 1..Len(U) |-> [c \in 1..Len(U[r]) |-> f[<<r, c>>]]]

\* _generate_mesh: the object with its mesh attribute set to (x, y, z).
_generate_mesh(o) ==
    LET x == [p \in Cells(o.U) |->
                 PositionX(o.R, o.U[p[1]][p[2]], o.V[p[1]][p[2]])]
        y == [p \in Cells(o.U) |->
                 PositionY(o.R, o.U[p[1]][p[2]], o.V[p[1]][p[2]])]
        z == [p \in Cells(o.U) |->
                 PositionZ(o.R, o.U[p[1]][p[2]], o.V[p[1]][p[2]])]
    IN  [o EXCEPT !.mesh = <<Array(o.U, x), Array(o.U, y), Array(o.U, z)>>]

\* The attribute assignments of __init__, before _generate_mesh is called.
Attributes(R, w, n) ==
    LET u == linspace(0, TwoPi, n)
        v == linspace(RoundDiv(-w, 2), RoundDiv(w, 2), n)
    IN  [R |-> R, w |-> w, n |-> n, u |-> u, v |-> v,
         U |-> meshgridU(u, v), V |-> meshgridV(u, v), mesh |-> None]

\* __init__ without its closing call of _generate_mesh (a lazy mesh).
init_without_mesh(R, w, n) ==
    /\ pc = "new"
    /\ pc' = "ready"
    /\ self' = Attributes(R, w, n)
    /\ made' = self'
    /\ UNCHANGED <<genCount, trace, file>>

\* MobiusStrip(R, w, n): no argument is validated.
__init__(R, w, n) ==
    /\ pc = "new"
    /\ pc' = "ready"
    /\ self' = _generate_mesh(Attributes(R, w, n))
    /\ made' = self'
    /\ genCount' = genCount + 1
    /\ UNCHANGED <<trace, file>>

\* The area element |dP/du x dP/dv| at one grid point (lines 42-55).
AreaElement(R, u, v) ==
    LET h == RoundDiv(u, 2)
        x_u == Mul(-(R + Mul(v, Cos(h))), Sin(u))
               - Mul(Mul(RoundDiv(v, 2), Sin(h)), Cos(u))
        y_u == Mul(R + Mul(v, Cos(h)), Cos(u))
               - Mul(Mul(RoundDiv(v, 2), Sin(h)), Sin(u))
        z_u == Mul(RoundDiv(v, 2), Cos(h))
        x_v == Mul(Cos(h), Cos(u))
        y_v == Mul(Cos(h), Sin(u))
        z_v == Sin(h)
    IN  Sqrt(Sq(Mul(y_u, z_v) - Mul(z_u, y_v))
             + Sq(Mul(z_u, x_v) - Mul(x_u, z_v))
             + Sq(Mul(x_u, y_v) - Mul(y_u, x_v)))

\* The integrand array of compute_surface_area, over the grids U and V.
AreaIntegrand(o) ==
    Array(o.U, [p \in Cells(o.U) |->
                   AreaElement(o.R, o.U[p[1]][p[2]], o.V[p[1]][p[2]])])

\* The value compute_surface_area returns when u and v have two samples.
SurfaceArea(o) ==
    LET du == o.u[2] - o.u[1]
        dv == o.v[2] - o.v[1]
    IN  Mul(Mul(Sum2(AreaIntegrand(o)), du), dv)

\* The speed |dP/du| of the curve v = w/2 at one sample u (lines 75-82).
Speed(R, w, u) ==
    LET h == RoundDiv(u, 2)
        dx_du == Mul(-(R + Mul(RoundDiv(w, 2), Cos(h))), Sin(u))
                 - Mul(Mul(RoundDiv(w, 4), Sin(h)), Cos(u))
        dy_du == Mul(R + Mul(RoundDiv(w, 2), Cos(h)), Cos(u))
                 - Mul(Mul(RoundDiv(w, 4), Sin(h)), Sin(u))
        dz_du == Mul(RoundDiv(w, 4), Cos(h))
    IN  Sqrt(Sq(dx_du) + Sq(dy_du) + Sq(dz_du))

\* The integrand array of compute_edge_length, over the samples u.
EdgeIntegrand(o) == [i \in 1..Len(o.u) |-> Speed(o.R, o.w, o.u[i])]

\* The value compute_edge_length returns when u has two samples.
EdgeLength(o) ==
    LET du == o.u[2] - o.u[1]
    IN  Mul(Sum1(EdgeIntegrand(o)), du)

\* compute_surface_area halving v in place (v /= 2), which writes through
\* to self.V, the array v aliases.
compute_surface_area_inplace ==
    /\ pc = "ready"
    /\ Len(trace) < MaxCalls
    /\ trace' = Append(trace,
                   IF Len(self.u) < 2 \/ Len(self.v) < 2
                   THEN Raised("compute_surface_area", "IndexError")
                   ELSE Returned("compute_surface_area", SurfaceArea(self)))
    /\ self' = [self EXCEPT !.V =
                   [r \in 1..Len(self.V) |->
                       [c \in 1..Len(self.V[r]) |-> RoundDiv(self.V[r][c], 2)]]]
    /\ UNCHANGED <<pc, made, genCount, file>>

\* compute_surface_area(): u[1] and v[1] do not exist when n < 2.
compute_surface_area ==
    /\ pc = "ready"
    /\ Len(trace) < MaxCalls
    /\ trace' = Append(trace,
                   IF Len(self.u) < 2 \/ Len(self.v) < 2
                   THEN Raised("compute_surface_area", "IndexError")
                   ELSE Returned("compute_surface_area", SurfaceArea(self)))
    /\ UNCHANGED <<pc, self, made, genCount, file>>

\* compute_edge_length(): u[1] does not exist when n < 2.
compute_edge_length ==
    /\ pc = "ready"
    /\ Len(trace) < MaxCalls
    /\ trace' = Append(trace,
                   IF Len(self.u) < 2
                   THEN Raised("compute_edge_length", "IndexError")
                   ELSE Returned("compute_edge_length", EdgeLength(self)))
    /\ UNCHANGED <<pc, self, made, genCount, file>>

\* plot releasing the mesh once it has handed it to the renderer.
plot_releasing_mesh(saved) ==
    /\ pc = "ready"
    /\ Len(trace) < MaxCalls
    /\ trace' = Append(trace,
                   IF self.mesh = None THEN Raised("plot", "TypeError")
                   ELSE IF saved THEN Returned("plot", 0)
                   ELSE Raised("plot", "IOError"))
    /\ file' = (file \/ (saved /\ self.mesh # None))
    /\ self' = [self EXCEPT !.mesh = None]
    /\ UNCHANGED <<pc, made, genCount>>

\* plot(): unpacks self.mesh and hands it to the renderer; savefig either
\* writes mobius_strip.png or fails (saved = FALSE).
plot(saved) ==
    /\ pc = "ready"
    /\ Len(trace) < MaxCalls
    /\ trace' = Append(trace,
                   IF self.mesh = None THEN Raised("plot", "TypeError")
                   ELSE IF saved THEN Returned("plot", 0)
                   ELSE Raised("plot", "IOError"))
    /\ file' = (file \/ (saved /\ self.mesh # None))
    /\ UNCHANGED <<pc, self, made, genCount>>

Init ==
    /\ pc = "new"
    /\ self = Blank
    /\ made = Blank
    /\ genCount = 0
    /\ trace = <<>>
    /\ file = FALSE

Next ==
    \/ \E R \in RValues, w \in WValues, n \in NValues : __init__(R, w, n)
    \/ compute_surface_area
    \/ compute_edge_length
    \/ \E saved \in BOOLEAN : plot(saved)

Spec == Init /\ [][Next]_vars

\* ----------------------------------------------------------------- claims
Queries == {"compute_surface_area", "compute_edge_length"}

Near(a, b) == Abs(a - b) <= Tol

\* G is a 2-D array of n rows and n columns.
Shape(G, n) == Len(G) = n /\ \A r \in 1..n : Len(G[r]) = n

\* The calls in the trace that returned a value.
ReturnedAt(op) == {i \in DOMAIN trace : trace[i].op = op /\ trace[i].err = ""}

\* C1: a model with n = 0 or n = 1 is never constructed: whenever the
\* constructor has returned an object, its n is at least 2, and no later
\* query fails for want of a second sample.
C1_InvalidNRejected ==
    /\ pc = "ready" => self.n >= 2
    /\ \A i \in DOMAIN trace : trace[i].err # "IndexError"

\* C2: after any sequence of queries the object is as the constructor left
\* it, and two calls of the same query return the same result.
C2_QueriesPure ==
    pc = "ready" =>
        /\ self = made
        /\ \A i, j \in DOMAIN trace :
               trace[i].op = trace[j].op /\ trace[i].op \in Queries
                   => trace[i] = trace[j]

\* C2 witness: a valid model on which surface area was computed, then edge
\* length, then surface area again, each returning a value.
C2_Witness ==
    /\ pc = "ready" /\ self.n >= 2 /\ self.w > 0 /\ self.R > 0
    /\ Len(trace) = 3
    /\ trace[1].op = "compute_surface_area" /\ trace[1].val > 0
    /\ trace[2].op = "compute_edge_length" /\ trace[2].val > 0
    /\ trace[3].op = "compute_surface_area"

\* C3: every value a query returned is a number >= 0.
C3_ResultsNonNegative ==
    \A i \in DOMAIN trace :
        trace[i].op \in Queries /\ trace[i].err = "" => trace[i].val >= 0

\* C4: u and v have n samples, U, V, X, Y, Z are n x n, and the cell for the
\* index pair (i, j), which is row j, column i, holds u[i] in U and v[j] in V.
C4_GridIsCrossProduct ==
    pc = "ready" =>
        /\ Len(self.u) = self.n /\ Len(self.v) = self.n
        /\ Shape(self.U, self.n) /\ Shape(self.V, self.n)
        /\ \A k \in 1..3 : Shape(self.mesh[k], self.n)
        /\ \A i, j \in 1..self.n :
               self.U[j][i] = self.u[i] /\ self.V[j][i] = self.v[j]

\* C4 witness: a constructed model with valid parameters and several samples.
C4_Witness ==
    pc = "ready" /\ self.n >= 3 /\ self.R > 0 /\ self.w > 0
    /\ self.u[1] # self.u[2] /\ self.v[1] # self.v[2]

\* The endpoints and the spacing of the samples of a model with n >= 1.
EndpointsAndSpacing(o) ==
    /\ o.u[1] = 0 /\ o.u[o.n] = TwoPi
    /\ o.v[1] = RoundDiv(-o.w, 2) /\ o.v[o.n] = RoundDiv(o.w, 2)
    /\ \A i \in 1..(o.n - 1) :
           /\ Near((o.n - 1) * (o.u[i + 1] - o.u[i]), TwoPi)
           /\ Near((o.n - 1) * (o.v[i + 1] - o.v[i]), o.w)

\* C5: in every constructed model u runs from 0 to 2*pi and v from -w/2 to
\* w/2, endpoints included, in equal steps of 2*pi/(n-1) and w/(n-1).
C5_EndpointsAndSpacing ==
    pc = "ready" /\ self.n >= 1 => EndpointsAndSpacing(self)

\* The same statement for the models the specification calls valid, n >= 2.
C5_ValidEndpointsAndSpacing ==
    pc = "ready" /\ self.n >= 2 => EndpointsAndSpacing(self)

\* C6: at width 0, with R > 0 and n >= 2, surface area is 0 and edge length
\* is the circumference 2*pi*R of the centerline circle.
C6_DegenerateWidth ==
    pc = "ready" /\ self.w = 0 /\ self.R > 0 /\ self.n >= 2 =>
        /\ \A i \in ReturnedAt("compute_surface_area") : trace[i].val = 0
        /\ \A i \in ReturnedAt("compute_edge_length") :
               Near(trace[i].val, Mul(TwoPi, self.R))

\* C7: once plot() has been called, whether it saved the file or failed, the
\* object is as the constructor left it, and a query called after the plot
\* returns what the same query returned before it.
C7_PlotReadOnly ==
    \A k \in DOMAIN trace :
        trace[k].op = "plot" =>
            /\ self = made
            /\ \A i \in 1..(k - 1) : \A j \in (k + 1)..Len(trace) :
                   trace[i].op = trace[j].op /\ trace[i].op \in Queries
                       => trace[i] = trace[j]

\* C7 witness: surface area computed, then a plot that failed to save, then
\* surface area computed again, on a valid model.
C7_Witness ==
    /\ pc = "ready" /\ self.n >= 2 /\ self.w > 0 /\ self.R > 0
    /\ Len(trace) = 3
    /\ trace[1].op = "compute_surface_area" /\ trace[1].val > 0
    /\ trace[2].op = "plot" /\ trace[2].err = "IOError"
    /\ trace[3].op = "compute_surface_area"

\* C8: the position at (2*pi, v[j]) is the position at (0, -v[j]) for every
\* width sample, and in the stored mesh the column of u[n-1] is the column
\* of u[0] with the rows reversed.
C8_Closure ==
    pc = "ready" =>
        /\ \A j \in 1..self.n :
               /\ Near(PositionX(self.R, TwoPi, self.v[j]),
                       PositionX(self.R, 0, -self.v[j]))
               /\ Near(PositionY(self.R, TwoPi, self.v[j]),
                       PositionY(self.R, 0, -self.v[j]))
               /\ Near(PositionZ(self.R, TwoPi, self.v[j]),
                       PositionZ(self.R, 0, -self.v[j]))
        /\ \A k \in 1..3 : \A j \in 1..self.n :
               Near(self.mesh[k][j][self.n],
                    self.mesh[k][self.n + 1 - j][1])

\* C8 witness: a valid model whose strip has width, so that the two ends of
\* a row of the mesh differ.
C8_Witness ==
    /\ pc = "ready" /\ self.n >= 3 /\ self.w > 0 /\ self.R > 0
    /\ ~Near(self.mesh[1][1][1], self.mesh[1][1][self.n])

\* C9: in every state after construction the mesh is present, is the one
\* the constructor generated, and _generate_mesh has run exactly once.
C9_MeshGeneratedOnce ==
    pc = "ready" =>
        /\ self.mesh # None
        /\ self.mesh = made.mesh
        /\ genCount = 1

\* C9 witness: both queries and a successful plot have been called.
C9_Witness ==
    /\ pc = "ready" /\ self.n >= 2 /\ file
    /\ ReturnedAt("compute_surface_area") # {}
    /\ ReturnedAt("compute_edge_length") # {}

\* The area element is the same number at every grid point.
ConstantIntegrand(o) ==
    \A r, c \in 1..o.n : AreaIntegrand(o)[r][c] = AreaIntegrand(o)[1][1]

\* C10: surface area is the sum of the n x n area elements times du*dv, and
\* for an area element constantly c that is c times the measure 2*pi*w of
\* the parameter domain.
C10_ConstantElementTimesMeasure ==
    \A i \in ReturnedAt("compute_surface_area") :
        /\ trace[i].val =
               Mul(Mul(Sum2(AreaIntegrand(self)), self.u[2] - self.u[1]),
                   self.v[2] - self.v[1])
        /\ ConstantIntegrand(self) =>
               Near(trace[i].val,
                    Mul(AreaIntegrand(self)[1][1], Mul(TwoPi, self.w)))

====
